---- MODULE Spec2Model ----
(***************************************************************************)
(* buildbot/steps/http_oldstyle.py: the HTTPStep build step and the        *)
(* module-global txrequests session it issues its request on.              *)
(*                                                                         *)
(* A step invocation (HTTPStep.run) is an inlineCallbacks coroutine: it    *)
(* runs until a yield, hands an operation to the log sink or to the        *)
(* session, and is resumed when that operation completes.  st[s].pc names  *)
(* the yield the coroutine of step s is suspended at (by source line),     *)
(* st[s].inflight holds the operation it is waiting for.                   *)
(*                                                                         *)
(* Python values are tagged records [t, v]: strings are sequences of       *)
(* character codes, a dict is the sequence of its (key, value) items in    *)
(* insertion order.  A log line is the format string with its arguments.   *)
(***************************************************************************)
EXTENDS Integers, Sequences, FiniteSets, TLC

VARIABLES
    txrequests,   \* TRUE iff "import txrequests" succeeded (lines 25-29)
    _session,     \* the module global: 0 is None, else an index of sessions
    sessions,     \* every Session object made so far: who made it, close() calls
    triggers,     \* number of "before shutdown" triggers registered with the reactor
    getCalls,     \* number of getSession() calls so far
    setCalls,     \* number of setSession() calls so far
    closeCalls,   \* number of closeSession() calls so far
    reactor,      \* "running" | "stopped"
    st            \* per step: attributes, coroutine locals, logs, requests issued

vars == <<txrequests, _session, sessions, triggers, getCalls, setCalls, closeCalls, reactor, st>>

----------------------------------------------------------------------------
(* Bounds of the model *)

NumSteps == 2       \* step invocations that may run concurrently
MaxSessions == 2    \* Session objects ever made
MaxCalls == 2       \* setSession/closeSession calls by the environment
MaxParams == 2      \* entries of a params mapping
MaxHops == 2        \* redirect hops in a response's history

(* Program constants *)

RuleLen == 60       \* '=' * 60
FailFrom == 400     \* r.status_code < 400
codes_ok == 200     \* requests.codes.ok

Steps == 1..NumSteps
\* the step of the specification of a single invocation
FirstStep == CHOOSE s \in Steps : \A t \in Steps : s <= t

SUCCESS == "SUCCESS"
FAILURE == "FAILURE"

----------------------------------------------------------------------------
(* Python values *)

None == [t |-> "None", v |-> <<>>]
Str(chars) == [t |-> "str", v |-> chars]
Dict(items) == [t |-> "dict", v |-> items]
List(items) == [t |-> "list", v |-> items]
Opaque(x) == [t |-> "opaque", v |-> <<x>>]
Name(x) == [t |-> "name", v |-> x]

\* bool(value): None, the empty string and the empty dict or list are false
Truthy(val) ==
    CASE val.t = "None" -> FALSE
      [] val.t \in {"str", "dict", "list"} -> Len(val.v) > 0
      [] OTHER -> TRUE

isinstance_dict(val) == val.t = "dict"

\* str < str: Python compares strings lexicographically by code point
RECURSIVE StrLess(_, _)
StrLess(a, b) ==
    IF Len(b) = 0 THEN FALSE
    ELSE IF Len(a) = 0 THEN TRUE
    ELSE IF Head(a) # Head(b) THEN Head(a) < Head(b)
    ELSE StrLess(Tail(a), Tail(b))

\* the insertion of one item into a list sorted by key, after the items whose
\* key is not greater (sorted() is stable)
RECURSIVE InsertByKey(_, _)
InsertByKey(item, sortedItems) ==
    IF Len(sortedItems) = 0 THEN <<item>>
    ELSE IF StrLess(item[1], Head(sortedItems)[1])
         THEN <<item>> \o sortedItems
         ELSE <<Head(sortedItems)>> \o InsertByKey(item, Tail(sortedItems))

\* params.items() left in insertion order
SortByKey_Unsorted(items) == items

\* sorted(params.items(), key=lambda x: x[0])
RECURSIVE SortByKey(_)
SortByKey(items) ==
    IF Len(items) = 0 THEN <<>>
    ELSE InsertByKey(items[Len(items)], SortByKey(SubSeq(items, 1, Len(items) - 1)))

----------------------------------------------------------------------------
(* The log sink and the formatting of log lines *)

\* fmt.format(*args), kept as the format string and its arguments
Line(ch, fmt, args) == [ch |-> ch, fmt |-> fmt, args |-> args]

addHeader(log, fmt, args) == [op |-> "write", log |-> log, line |-> Line("header", fmt, args)]
addStdout(log, fmt, args) == [op |-> "write", log |-> log, line |-> Line("stdout", fmt, args)]
addStderr(log, fmt, args) == [op |-> "write", log |-> log, line |-> Line("stderr", fmt, args)]
addLog(name) == [op |-> "addLog", name |-> name]
finish(log) == [op |-> "finish", log |-> log]

\* '=' * 60
Repeat(c, n) == [k \in 1..n |-> c]

\* the coroutine r yields the Deferred of operation o and is suspended at label pc
Yield(r, pc, o) == [r EXCEPT !.pc = pc, !.inflight = <<o>>]

----------------------------------------------------------------------------
(* The global session: getSession, setSession, closeSession *)

\* getSession without the test of line 42: a session is made on every call
getSession_Always(who) ==
    /\ sessions' = Append(sessions, [by |-> who, nth |-> getCalls + 1, closes |-> 0])
    /\ _session' = Len(sessions) + 1
    /\ triggers' = triggers + 1
    /\ getCalls' = getCalls + 1

\* getSession() called by `who`; the session it returns is _session'
getSession(who) ==
    /\ IF _session = 0
       THEN /\ sessions' = Append(sessions, [by |-> who, nth |-> getCalls + 1, closes |-> 0])
            /\ _session' = Len(sessions) + 1
            /\ triggers' = triggers + 1
       ELSE UNCHANGED <<_session, sessions, triggers>>
    /\ getCalls' = getCalls + 1

\* closeSession closing the session and leaving it the global one
closeSession_KeepsGlobal(n) ==
    /\ IF _session # 0
       THEN /\ sessions' = [sessions EXCEPT ![_session].closes = @ + 1]
            /\ UNCHANGED _session
       ELSE UNCHANGED <<_session, sessions>>
    /\ closeCalls' = closeCalls + n

\* closeSession(), called n >= 1 times in a row: the calls after the first find None
closeSession(n) ==
    /\ IF _session # 0
       THEN /\ sessions' = [sessions EXCEPT ![_session].closes = @ + 1]
            /\ _session' = 0
       ELSE UNCHANGED <<_session, sessions>>
    /\ closeCalls' = closeCalls + n

----------------------------------------------------------------------------
(* HTTPStep *)

requestsParams ==
    <<"params", "data", "json", "headers", "cookies", "files", "auth",
      "timeout", "allow_redirects", "proxies", "hooks", "stream", "verify", "cert">>

ParamNames == {requestsParams[k] : k \in DOMAIN requestsParams}

KnownMethods == {"POST", "GET", "PUT", "DELETE", "HEAD", "OPTIONS"}

\* kwargs.pop(param, None)
KwPop(kwargs, param) == IF param \in DOMAIN kwargs THEN kwargs[param] ELSE None

\* fmt % args as a str, kept as the format string and its arguments
Text(fmt, args) == [t |-> "str", v |-> <<[fmt |-> fmt, args |-> args]>>]

\* the class attributes of HTTPStep and the locals of a run not yet started
NewStep ==
    [pc |-> "new", arg_method |-> "", error |-> "",
     method |-> "", url |-> "", attrs |-> [p \in ParamNames |-> None],
     session |-> 0,
     descriptionDone |-> Text("Requested", <<>>),
     requestkwargs |-> <<>>, log |-> 0, params |-> <<>>, data |-> None,
     outcome |-> <<>>, h |-> 0, i |-> 0, caller |-> "", content_log |-> 0,
     yielded |-> 0, result |-> "",
     inflight |-> <<>>, logs |-> <<>>, requests |-> <<>>]

\* config.error(msg): the construction fails with a configuration error
config_error(r, msg) == [r EXCEPT !.pc = "ConfigError", !.error = msg]

\* __init__ without the test of the method in line 77
HTTPStep_init_AnyMethod(r0, url, method, kwargs) ==
    LET r == [r0 EXCEPT !.arg_method = method] IN
    IF ~txrequests THEN config_error(r, "Need to install txrequest to use this step")
    ELSE [r EXCEPT !.pc = "constructed", !.method = method, !.url = url,
                   !.attrs = [p \in ParamNames |-> KwPop(kwargs, p)]]

\* HTTPStep.__init__(url, method, **kwargs) on the fresh object r
HTTPStep_init(r0, url, method, kwargs) ==
    LET r == [r0 EXCEPT !.arg_method = method] IN
    IF ~txrequests THEN config_error(r, "Need to install txrequest to use this step")
    ELSE IF method \notin KnownMethods
    THEN config_error(r, "Wrong method given")
    ELSE [r EXCEPT !.pc = "constructed", !.method = method, !.url = url,
                   !.attrs = [p \in ParamNames |-> KwPop(kwargs, p)]]

\* requestkwargs with every option of the whitelist, the None ones too
RequestKwargs_WithNone(r) ==
    [k \in {"method", "url"} \cup ParamNames |->
        IF k = "method" THEN Name(r.method)
        ELSE IF k = "url" THEN Name(r.url)
        ELSE r.attrs[k]]

\* run, lines 95-103: requestkwargs
RequestKwargs(r) ==
    [k \in {"method", "url"} \cup {p \in ParamNames : r.attrs[p] # None} |->
        IF k = "method" THEN Name(r.method)
        ELSE IF k = "url" THEN Name(r.url)
        ELSE r.attrs[k]]

\* requestkwargs.get(key, default)
KwGet(kw, key, default) == IF key \in DOMAIN kw THEN kw[key] ELSE default

\* requestkwargs[key] = val
KwSet(kw, key, val) == [k \in DOMAIN kw \cup {key} |-> IF k = key THEN val ELSE kw[k]]

\* run, lines 93-105, with `session` the value getSession() returned
RunBegin(r, session) ==
    Yield([r EXCEPT !.session = session,
                    !.requestkwargs = RequestKwargs(r)], "L105", addLog("log"))

\* the call session.request(**kwargs) as the session object receives it: closes
\* is the number of close() calls the session has had by then
RequestCall(session, kwargs) ==
    [session |-> session, kwargs |-> kwargs,
     closes |-> IF session = 0 THEN 0 ELSE sessions[session].closes]

\* the request issued on the session that is the global one when line 128 runs
DoRequest_OnGlobal(r) ==
    Yield([r EXCEPT !.requests = Append(@, RequestCall(_session, r.requestkwargs))],
          "L128", [op |-> "request"])

\* the request issued a second time
DoRequest_Twice(r) ==
    Yield([r EXCEPT !.requests = @ \o <<RequestCall(r.session, r.requestkwargs),
                                        RequestCall(r.session, r.requestkwargs)>>],
          "L128", [op |-> "request"])

\* run, line 128: self.session.request(**requestkwargs)
DoRequest(r) ==
    Yield([r EXCEPT !.requests = Append(@, RequestCall(r.session, r.requestkwargs))],
          "L128", [op |-> "request"])

\* run, lines 121-125
DataLoop(r) ==
    IF r.i <= Len(r.data.v)
    THEN Yield([r EXCEPT !.i = @ + 1], "L123",
               addHeader(r.log, "\t{}: {}\n", r.data.v[r.i]))
    ELSE DoRequest(r)

\* run, lines 118-120
FromData(r0) ==
    LET r == [r0 EXCEPT !.data = KwGet(r0.requestkwargs, "data", None)] IN
    IF Truthy(r.data)
    THEN Yield(r, "L120", addHeader(r.log, "Data:\n", <<>>))
    ELSE DoRequest(r)

\* run, lines 116-117
ParamsLoop(r) ==
    IF r.i <= Len(r.params)
    THEN Yield([r EXCEPT !.i = @ + 1], "L117",
               addHeader(r.log, "\t{}: {}\n", r.params[r.i]))
    ELSE FromData(r)

\* run, line 105 resumed, line 109
After105(r) ==
    Yield([r EXCEPT !.log = r.yielded], "L109",
          addHeader(r.yielded, "Performing {} request to {}\n", <<r.method, r.url>>))

\* run, lines 110-111
After109(r) ==
    IF Truthy(r.attrs["params"])
    THEN Yield(r, "L111", addHeader(r.log, "Parameters:\n", <<>>))
    ELSE FromData(r)

\* run, lines 112-116
After111(r) ==
    LET params == KwGet(r.requestkwargs, "params", Dict(<<>>)) IN
    IF Truthy(params)
    THEN LET sorted == SortByKey(params.v) IN
         ParamsLoop([r EXCEPT !.params = sorted, !.i = 1,
                              !.requestkwargs = KwSet(@, "params", List(sorted))])
    ELSE ParamsLoop([r EXCEPT !.params = params.v, !.i = 1])

\* the entries of a mapping given as data listed sorted by key, as params are
After120_SortedData(r) ==
    IF isinstance_dict(r.data)
    THEN DataLoop([r EXCEPT !.i = 1, !.data = Dict(SortByKey(r.data.v))])
    ELSE Yield(r, "L125", addHeader(r.log, "\t{}\n", <<r.data>>))

\* run, lines 121-125
After120(r) ==
    IF isinstance_dict(r.data)
    THEN DataLoop([r EXCEPT !.i = 1])
    ELSE Yield(r, "L125", addHeader(r.log, "\t{}\n", <<r.data>>))

\* the history walked newest first
Response_NewestFirst(r) ==
    IF r.caller = "L136"
    THEN r.outcome[1].r.history[Len(r.outcome[1].r.history) + 1 - r.h]
    ELSE r.outcome[1].r

\* the response log_response is rendering: a hop of the history or the final one
Response(r) ==
    IF r.caller = "L136" THEN r.outcome[1].r.history[r.h] ELSE r.outcome[1].r

\* log_response, line 152
log_response(r, caller) ==
    Yield([r EXCEPT !.caller = caller], "L152", addHeader(r.log, "Request Header:\n", <<>>))

\* run, lines 135-139
HistoryLoop(r) ==
    IF r.h <= Len(r.outcome[1].r.history)
    THEN log_response(r, "L136")
    ELSE log_response(r, "L139")

\* lines 129-139 with the exception reported on stdout
After128_ExceptionToStdout(r) ==
    IF r.outcome[1].exc = "ConnectionError"
    THEN Yield(r, "L130",
               addStdout(r.log, "An exception occurred while performing the request: {}",
                         <<r.outcome[1].detail>>))
    ELSE IF Len(r.outcome[1].r.history) > 0
    THEN Yield(r, "L134",
               addStdout(r.log, "\nRedirected %d times:\n\n", <<Len(r.outcome[1].r.history)>>))
    ELSE log_response(r, "L139")

\* run, lines 129-139, with the outcome of the request in r.outcome
After128(r) ==
    IF r.outcome[1].exc = "ConnectionError"
    THEN Yield(r, "L130",
               addStderr(r.log, "An exception occurred while performing the request: {}",
                         <<r.outcome[1].detail>>))
    ELSE IF Len(r.outcome[1].r.history) > 0
    THEN Yield(r, "L134",
               addStdout(r.log, "\nRedirected %d times:\n\n", <<Len(r.outcome[1].r.history)>>))
    ELSE log_response(r, "L139")

\* run, line 131
After130(r) == [r EXCEPT !.pc = "returned", !.result = FAILURE]

\* run, line 135
After134(r) == HistoryLoop([r EXCEPT !.h = 1])

\* run, line 135 after line 137
After137(r) == HistoryLoop([r EXCEPT !.h = @ + 1])

\* Classify with the boundary moved: 400 itself still counts as a success
Classify_Inclusive(status_code) == IF status_code <= FailFrom THEN SUCCESS ELSE FAILURE

\* run, lines 144-147
Classify(status_code) == IF status_code < FailFrom THEN SUCCESS ELSE FAILURE

\* the description taken from the first response received, a redirect hop if any
After141_FirstResponse(r) ==
    LET first == IF Len(r.outcome[1].r.history) > 0
                 THEN r.outcome[1].r.history[1] ELSE r.outcome[1].r IN
    [r EXCEPT !.pc = "returned",
              !.descriptionDone = List(<<Text("Status code: %d", <<first.status_code>>)>>),
              !.result = Classify(r.outcome[1].r.status_code)]

\* run, lines 143-147: descriptionDone becomes a list holding one string
After141(r) ==
    [r EXCEPT !.pc = "returned",
              !.descriptionDone = List(<<Text("Status code: %d", <<r.outcome[1].r.status_code>>)>>),
              !.result = Classify(r.outcome[1].r.status_code)]

\* log_response, lines 156
RequestHeaderLoop(r) ==
    IF r.i <= Len(Response(r).request.headers)
    THEN Yield([r EXCEPT !.i = @ + 1], "L154",
               addHeader(r.log, "\t{}: {}\n", Response(r).request.headers[r.i]))
    ELSE Yield(r, "L156", addStdout(r.log, "URL: {}\n", <<Response(r).url>>))

After152(r) == RequestHeaderLoop([r EXCEPT !.i = 1])

\* the Status line on stdout whatever the status code
StatusLine_AlwaysStdout(log, status_code) == addStdout(log, "Status: {}\n", <<status_code>>)

\* the Status line on stdout for every status code the step counts as a success
StatusLine_SuccessClass(log, status_code) ==
    IF status_code < FailFrom
    THEN addStdout(log, "Status: {}\n", <<status_code>>)
    ELSE addStderr(log, "Status: {}\n", <<status_code>>)

\* log_response, lines 158-161
StatusLine(log, status_code) ==
    IF status_code = codes_ok
    THEN addStdout(log, "Status: {}\n", <<status_code>>)
    ELSE addStderr(log, "Status: {}\n", <<status_code>>)

After156(r) == Yield(r, "L159", StatusLine(r.log, Response(r).status_code))

\* log_response, line 163
After159(r) == Yield(r, "L163", addHeader(r.log, "Response Header:\n", <<>>))

\* log_response, lines 164-167
ResponseHeaderLoop(r) ==
    IF r.i <= Len(Response(r).headers)
    THEN Yield([r EXCEPT !.i = @ + 1], "L165",
               addHeader(r.log, "\t{}: {}\n", Response(r).headers[r.i]))
    ELSE Yield(r, "L167", addStdout(r.log, " ------ Content ------\n{}", <<Response(r).text>>))

After163(r) == ResponseHeaderLoop([r EXCEPT !.i = 1])

\* line 168 opening the content log only when the run has none yet
After167_OneContentLog(r) ==
    IF r.content_log = 0
    THEN Yield(r, "L168", addLog("content"))
    ELSE Yield(r, "L169", addStdout(r.content_log, "{}", <<Response(r).text>>))

\* log_response, line 168
After167(r) == Yield(r, "L168", addLog("content"))

\* log_response, line 169
After168(r) ==
    Yield([r EXCEPT !.content_log = r.yielded], "L169",
          addStdout(r.yielded, "{}", <<Response(r).text>>))

\* run returning after the last response without finishing the log
After169_NoFinish(r) ==
    IF r.caller = "L136"
    THEN Yield(r, "L137", addStdout(r.log, "{}\n", <<Repeat("=", RuleLen)>>))
    ELSE After141(r)

\* log_response returns to run: line 137 in the history loop, line 141 after line 139
After169(r) ==
    IF r.caller = "L136"
    THEN Yield(r, "L137", addStdout(r.log, "{}\n", <<Repeat("=", RuleLen)>>))
    ELSE Yield(r, "L141", finish(r.log))

\* the log sink carries out the operation o of step record r
SinkApply(r, o) ==
    CASE o.op = "addLog" ->
           [r EXCEPT !.logs = Append(@, [name |-> o.name, lines |-> <<>>, finished |-> 0]),
                     !.yielded = Len(r.logs) + 1, !.inflight = <<>>]
      [] o.op = "write" ->
           [r EXCEPT !.logs[o.log].lines = Append(@, o.line), !.inflight = <<>>]
      [] o.op = "finish" ->
           [r EXCEPT !.logs[o.log].finished = @ + 1, !.inflight = <<>>]

----------------------------------------------------------------------------
(* Inputs: the configurations a step is constructed with and the outcomes   *)
(* of a request                                                             *)

MethodStrings == KnownMethods \cup {"PATCH", "get", ""}

\* the strings "a", "ab", "b" as character codes
Keys == {<<1>>, <<1, 2>>, <<2>>}
ValueOf(key) == <<9>> \o key

\* the mappings of at most n entries over Keys, in every insertion order
Mappings(n) ==
    {Dict([k \in DOMAIN q |-> <<q[k], ValueOf(q[k])>>]) :
        q \in {q \in UNION {[1..m -> Keys] : m \in 0..n} :
                  \A a, b \in DOMAIN q : a # b => q[a] # q[b]}}

ParamsChoices == {None} \cup Mappings(MaxParams)

DataChoices ==
    {None, Str(<<>>), Str(<<1, 2>>), Dict(<<>>),
     Dict(<< <<<<2>>, <<7>>>>, <<<<1>>, <<8>>>> >>),
     Dict(<< <<<<1>>, <<8>>>>, <<<<2>>, <<7>>>> >>)}

TheUrl == "http://example.test/ok"

Config(method, kwargs) == [method |-> method, url |-> TheUrl, kwargs |-> kwargs]

\* every method string without options, GET with every params and data, and
\* one configuration with other options of the whitelist
Configs ==
    {Config(m, <<>>) : m \in MethodStrings}
    \cup {Config("GET", ("params" :> p) @@ ("data" :> d)) : p \in ParamsChoices, d \in DataChoices}
    \cup {Config("POST", ("timeout" :> Opaque(5)) @@ ("verify" :> Opaque(FALSE))
                          @@ ("json" :> None) @@ ("data" :> Str(<<1>>)))}

\* the configurations of the concurrent invocations: one with params and a
\* mapping as data, one with a string as data
ConcConfigs ==
    {Config("GET", ("params" :> Dict(<< <<<<2>>, <<7>>>> >>)) @@ ("data" :> Dict(<< <<<<1>>, <<8>>>> >>))),
     Config("POST", ("data" :> Str(<<1>>)))}

RedirectCodes == {301, 302}
FinalCodes == {200, 201, 302, 399, 400, 404}

ResponseRecord(url, status_code, headers, text, history) ==
    [url |-> url, status_code |-> status_code,
     request |-> [headers |-> << <<"User-Agent", "python-requests">> >>],
     headers |-> headers, text |-> text, history |-> history]

\* the n-th redirect hop, with status code c
Hop(n, c) == ResponseRecord(<<"http://example.test/hop", n>>, c,
                            << <<"Location", "next">> >>, "", <<>>)

Histories(n) ==
    {[k \in DOMAIN q |-> Hop(k, q[k])] : q \in UNION {[1..m -> RedirectCodes] : m \in 0..n}}

Final(c, history) ==
    ResponseRecord(<<TheUrl, 0>>, c,
                   << <<"Server", "nginx">>, <<"Content-Type", "text/plain">> >>, "hi", history)

NoResponse == ResponseRecord(<<"", 0>>, 0, <<>>, "", <<>>)

ConnectionError == [exc |-> "ConnectionError", detail |-> "Connection refused", r |-> NoResponse]
Received(r) == [exc |-> "", detail |-> "", r |-> r]

Outcomes ==
    {ConnectionError} \cup {Received(Final(c, h)) : c \in FinalCodes, h \in Histories(MaxHops)}

\* the outcomes of the requests of the concurrent invocations
ConcOutcomes == {ConnectionError, Received(Final(200, <<Hop(1, 302)>>))}

\* a GET without options, answered without a redirect or not at all
PlainConfigs == {Config("GET", <<>>)}
PlainOutcomes == {ConnectionError, Received(Final(404, <<>>))}

----------------------------------------------------------------------------
(* Initial state and actions *)

Init ==
    /\ txrequests \in BOOLEAN
    /\ _session = 0
    /\ sessions = <<>>
    /\ triggers = 0
    /\ getCalls = 0
    /\ setCalls = 0
    /\ closeCalls = 0
    /\ reactor = "running"
    /\ st = [s \in Steps |-> NewStep]

globals == <<txrequests, _session, sessions, triggers, getCalls, setCalls, closeCalls, reactor>>

\* HTTPStep(url, method, **kwargs)
Construct(s, cfgs) ==
    /\ reactor = "running"
    /\ st[s].pc = "new"
    /\ \E c \in cfgs : st' = [st EXCEPT ![s] = HTTPStep_init(st[s], c.url, c.method, c.kwargs)]
    /\ UNCHANGED globals

\* the step is started: run up to its first yield
RunStart(s) ==
    /\ reactor = "running"
    /\ st[s].pc = "constructed"
    /\ _session = 0 => Len(sessions) < MaxSessions
    /\ getSession(s)
    /\ st' = [st EXCEPT ![s] = RunBegin(st[s], _session')]
    /\ UNCHANGED <<txrequests, setCalls, closeCalls, reactor>>

\* the coroutine resumed without waiting for the Deferred it has yielded
Ready_NoWait(s, pc) ==
    /\ reactor = "running"
    /\ st[s].pc = pc

\* the Deferred the coroutine of s waits for at the yield of label pc has fired
Ready(s, pc) ==
    /\ reactor = "running"
    /\ st[s].pc = pc
    /\ Len(st[s].inflight) = 0

\* the coroutine of s has run to its next yield, or has returned, leaving the record r
Continue(s, r) ==
    /\ st' = [st EXCEPT ![s] = r]
    /\ UNCHANGED globals

Run105(s) ==
    /\ Ready(s, "L105")
    /\ Continue(s, After105(st[s]))

Run109(s) ==
    /\ Ready(s, "L109")
    /\ Continue(s, After109(st[s]))

Run111(s) ==
    /\ Ready(s, "L111")
    /\ Continue(s, After111(st[s]))

Run117(s) ==
    /\ Ready(s, "L117")
    /\ Continue(s, ParamsLoop(st[s]))

Run120(s) ==
    /\ Ready(s, "L120")
    /\ Continue(s, After120(st[s]))

Run123(s) ==
    /\ Ready(s, "L123")
    /\ Continue(s, DataLoop(st[s]))

Run125(s) ==
    /\ Ready(s, "L125")
    /\ Continue(s, DoRequest(st[s]))

Run128(s) ==
    /\ Ready(s, "L128")
    /\ Continue(s, After128(st[s]))

Run130(s) ==
    /\ Ready(s, "L130")
    /\ Continue(s, After130(st[s]))

Run134(s) ==
    /\ Ready(s, "L134")
    /\ Continue(s, After134(st[s]))

Run137(s) ==
    /\ Ready(s, "L137")
    /\ Continue(s, After137(st[s]))

Run141(s) ==
    /\ Ready(s, "L141")
    /\ Continue(s, After141(st[s]))

LogResponse152(s) ==
    /\ Ready(s, "L152")
    /\ Continue(s, After152(st[s]))

LogResponse154(s) ==
    /\ Ready(s, "L154")
    /\ Continue(s, RequestHeaderLoop(st[s]))

LogResponse156(s) ==
    /\ Ready(s, "L156")
    /\ Continue(s, After156(st[s]))

LogResponse159(s) ==
    /\ Ready(s, "L159")
    /\ Continue(s, After159(st[s]))

LogResponse163(s) ==
    /\ Ready(s, "L163")
    /\ Continue(s, After163(st[s]))

LogResponse165(s) ==
    /\ Ready(s, "L165")
    /\ Continue(s, ResponseHeaderLoop(st[s]))

LogResponse167(s) ==
    /\ Ready(s, "L167")
    /\ Continue(s, After167(st[s]))

LogResponse168(s) ==
    /\ Ready(s, "L168")
    /\ Continue(s, After168(st[s]))

LogResponse169(s) ==
    /\ Ready(s, "L169")
    /\ Continue(s, After169(st[s]))

\* the log sink completes the addLog, write or finish the step waits for
LogSink(s) ==
    /\ reactor = "running"
    /\ Len(st[s].inflight) = 1
    /\ st[s].inflight[1].op \in {"addLog", "write", "finish"}
    /\ st' = [st EXCEPT ![s] = SinkApply(st[s], st[s].inflight[1])]
    /\ UNCHANGED globals

\* the session delivers the outcome of the request: a response or a ConnectionError
Respond(s, outcomes) ==
    /\ reactor = "running"
    /\ Len(st[s].inflight) = 1
    /\ st[s].inflight[1].op = "request"
    /\ \E o \in outcomes : st' = [st EXCEPT ![s].outcome = <<o>>, ![s].inflight = <<>>]
    /\ UNCHANGED globals

\* setSession(session): None, a session made before, or one the caller has just made
SetSession ==
    /\ reactor = "running"
    /\ setCalls + closeCalls < MaxCalls
    /\ \/ \E x \in 0..Len(sessions) : _session' = x /\ UNCHANGED sessions
       \/ /\ Len(sessions) < MaxSessions
          /\ sessions' = Append(sessions, [by |-> 0, nth |-> 0, closes |-> 0])
          /\ _session' = Len(sessions) + 1
    /\ setCalls' = setCalls + 1
    /\ UNCHANGED <<txrequests, triggers, getCalls, closeCalls, reactor, st>>

\* closeSession() called by the environment
CloseSession ==
    /\ reactor = "running"
    /\ setCalls + closeCalls < MaxCalls
    /\ closeSession(1)
    /\ UNCHANGED <<txrequests, triggers, getCalls, setCalls, reactor, st>>

\* the reactor stopping without running its "before shutdown" triggers
Shutdown_NoTriggers ==
    /\ reactor = "running"
    /\ reactor' = "stopped"
    /\ UNCHANGED <<txrequests, _session, sessions, triggers, getCalls, setCalls, closeCalls, st>>

\* the reactor shuts down: every registered "before shutdown" trigger calls closeSession
Shutdown ==
    /\ reactor = "running"
    /\ reactor' = "stopped"
    /\ IF triggers > 0 THEN closeSession(triggers)
                       ELSE UNCHANGED <<_session, sessions, closeCalls>>
    /\ UNCHANGED <<txrequests, triggers, getCalls, setCalls, st>>

StepNext(s, cfgs, outcomes) ==
    \/ Construct(s, cfgs)
    \/ RunStart(s)
    \/ Run105(s) \/ Run109(s) \/ Run111(s) \/ Run117(s) \/ Run120(s) \/ Run123(s)
    \/ Run125(s) \/ Run128(s) \/ Run130(s) \/ Run134(s) \/ Run137(s) \/ Run141(s)
    \/ LogResponse152(s) \/ LogResponse154(s) \/ LogResponse156(s) \/ LogResponse159(s)
    \/ LogResponse163(s) \/ LogResponse165(s) \/ LogResponse167(s) \/ LogResponse168(s)
    \/ LogResponse169(s)
    \/ LogSink(s)
    \/ Respond(s, outcomes)

\* one invocation, from its construction to its return, over every configuration and outcome
Next == StepNext(FirstStep, Configs, Outcomes)

Spec == Init /\ [][Next]_vars

\* concurrent invocations on the reactor, no setSession or closeSession call
NextConc ==
    \/ StepNext(FirstStep, ConcConfigs, ConcOutcomes)
    \/ \E s \in Steps \ {FirstStep} : StepNext(s, PlainConfigs, PlainOutcomes)

SpecConc == Init /\ [][NextConc]_vars

\* concurrent invocations, with the environment setting and closing the global session
NextEnv ==
    \/ StepNext(FirstStep, ConcConfigs, ConcOutcomes)
    \/ \E s \in Steps \ {FirstStep} : StepNext(s, PlainConfigs, PlainOutcomes)
    \/ SetSession
    \/ CloseSession
    \/ Shutdown

SpecEnv == Init /\ [][NextEnv]_vars

\* the life of the global session: every started step calls getSession (line 93),
\* the environment calls setSession and closeSession, the reactor shuts down
NextSession ==
    \/ \E s \in Steps : Construct(s, PlainConfigs)
    \/ \E s \in Steps : RunStart(s)
    \/ SetSession
    \/ CloseSession
    \/ Shutdown

SpecSession == Init /\ [][NextSession]_vars

\* one invocation from its construction to its return, with the environment
\* setting and closing the global session at any of its suspension points
NextRunEnv ==
    \/ StepNext(FirstStep, ConcConfigs, ConcOutcomes)
    \/ SetSession
    \/ CloseSession
    \/ Shutdown

SpecRunEnv == Init /\ [][NextRunEnv]_vars

----------------------------------------------------------------------------
(* What the claims speak of *)

FmtPerforming == "Performing {} request to {}\n"
FmtParameters == "Parameters:\n"
FmtData == "Data:\n"
FmtKeyValue == "\t{}: {}\n"
FmtRequestHeader == "Request Header:\n"
FmtURL == "URL: {}\n"
FmtStatus == "Status: {}\n"
FmtResponseHeader == "Response Header:\n"
FmtContent == " ------ Content ------\n{}"
FmtRedirected == "\nRedirected %d times:\n\n"
FmtException == "An exception occurred while performing the request: {}"

\* the lines written so far to the log named "log" of step record r
PrimaryLines(r) == IF r.log = 0 THEN <<>> ELSE r.logs[r.log].lines

\* the positions of the lines of a format, ascending
Positions(lines, fmt) == {k \in DOMAIN lines : lines[k].fmt = fmt}

CountOf(lines, fmt) == Cardinality(Positions(lines, fmt))

\* the k-th smallest element of a set of numbers
Nth(S, k) == CHOOSE x \in S : Cardinality({y \in S : y < x}) = k - 1

Returned(r) == r.pc = "returned"
GotResponse(r) == Len(r.outcome) = 1 /\ r.outcome[1].exc = ""
GotConnectionError(r) == Len(r.outcome) = 1 /\ r.outcome[1].exc = "ConnectionError"

\* the responses log_response is to log, oldest first
Responses(r) == r.outcome[1].r.history \o <<r.outcome[1].r>>

\* a < b for strings, stated without recursion: a is a proper prefix of b, or
\* the first position where they differ holds the smaller code in a
LexLess(a, b) ==
    \E k \in 1..Len(b) :
        /\ \A j \in 1..(k - 1) : j <= Len(a) /\ a[j] = b[j]
        /\ \/ k = Len(a) + 1
           \/ k <= Len(a) /\ a[k] < b[k]

IsRule(line) ==
    /\ line.fmt = "{}\n"
    /\ line.ch = "stdout"
    /\ Len(line.args[1]) = 60
    /\ \A k \in 1..60 : line.args[1][k] = "="

----------------------------------------------------------------------------
(* The claims *)

\* C1: when run has returned after a response, its result is SUCCESS if and only
\* if the status code of the final response is below 400, and FAILURE otherwise,
\* whatever the redirect hops; after a ConnectionError its result is FAILURE.
C1_Outcome ==
    \A s \in Steps :
        Returned(st[s]) =>
            /\ st[s].result \in {SUCCESS, FAILURE}
            /\ GotConnectionError(st[s]) => st[s].result = FAILURE
            /\ GotResponse(st[s]) =>
                   (st[s].result = SUCCESS <=> st[s].outcome[1].r.status_code < 400)

\* a run that returned SUCCESS for a final 399 reached over redirect hops
C1_Witness ==
    \E s \in Steps :
        /\ Returned(st[s]) /\ GotResponse(st[s])
        /\ st[s].outcome[1].r.status_code = 399
        /\ Len(st[s].outcome[1].r.history) > 0
        /\ st[s].result = SUCCESS

\* C2 as stated: a construction with one of the six methods succeeds, one with
\* any other method string fails with a configuration error, and run is never
\* reached with a method outside the six.
C2_SixMethodsSucceed ==
    \A s \in Steps :
        st[s].pc # "new" =>
            /\ st[s].arg_method \in {"GET", "POST", "PUT", "DELETE", "HEAD", "OPTIONS"}
                   <=> st[s].pc # "ConfigError"
            /\ st[s].pc # "ConfigError"
                   => st[s].method \in {"GET", "POST", "PUT", "DELETE", "HEAD", "OPTIONS"}

\* C2, amended: a construction fails with a configuration error exactly when
\* txrequests could not be imported or the method is not one of the six; so with
\* txrequests importable the six methods succeed and every other method string
\* fails, and run is never reached with a method outside the six.
C2_Construction ==
    \A s \in Steps :
        st[s].pc # "new" =>
            /\ st[s].pc = "ConfigError"
                   <=> \/ ~txrequests
                       \/ st[s].arg_method \notin {"GET", "POST", "PUT", "DELETE", "HEAD", "OPTIONS"}
            /\ st[s].pc # "ConfigError"
                   => /\ st[s].method = st[s].arg_method
                      /\ st[s].method \in {"GET", "POST", "PUT", "DELETE", "HEAD", "OPTIONS"}

\* with txrequests importable, a construction with PATCH failed
C2_Witness ==
    \E s \in Steps :
        txrequests /\ st[s].pc = "ConfigError" /\ st[s].arg_method = "PATCH"

\* the lines of the "Parameters:" section: the key/value lines that follow the
\* "Parameters:" line without interruption
ParameterSection(lines) ==
    IF Positions(lines, FmtParameters) = {} THEN <<>>
    ELSE LET p == Nth(Positions(lines, FmtParameters), 1)
             n == CHOOSE n \in 0..(Len(lines) - p) :
                      /\ \A k \in 1..n : lines[p + k].fmt = FmtKeyValue
                      /\ n < Len(lines) - p => lines[p + n + 1].fmt # FmtKeyValue
         IN [k \in 1..n |-> lines[p + k].args]

\* C3: for a non-empty params mapping, in whatever insertion order, once the
\* request is issued the "Parameters:" section lists the entries of the mapping
\* with their keys in strictly ascending order, and the params passed to
\* session.request are those key/value pairs in that order.
C3_ParamsSorted ==
    \A s \in Steps :
        (Len(st[s].requests) = 1 /\ Truthy(st[s].attrs["params"])) =>
            LET section == ParameterSection(PrimaryLines(st[s]))
                given == st[s].attrs["params"].v
                sent == st[s].requests[1].kwargs["params"]
            IN /\ Len(section) = Len(given)
               /\ {section[k] : k \in DOMAIN section} = {given[k] : k \in DOMAIN given}
               /\ \A k \in 1..(Len(section) - 1) : LexLess(section[k][1], section[k + 1][1])
               /\ sent.v = section

\* a request was issued for a mapping whose keys were inserted in descending order
C3_Witness ==
    \E s \in Steps :
        /\ Len(st[s].requests) = 1
        /\ st[s].attrs["params"].t = "dict"
        /\ Len(st[s].attrs["params"].v) >= 2
        /\ LexLess(st[s].attrs["params"].v[2][1], st[s].attrs["params"].v[1][1])

\* C4: when run has returned after a response, the primary log holds exactly one
\* "Status:" line per response logged (each hop, then the final response), in
\* order, on stdout when the status code is 200 and on stderr for every other
\* status code.
C4_StatusChannel ==
    \A s \in Steps :
        (Returned(st[s]) /\ GotResponse(st[s])) =>
            LET lines == PrimaryLines(st[s])
                at == Positions(lines, FmtStatus)
            IN /\ Cardinality(at) = Len(Responses(st[s]))
               /\ \A k \in 1..Len(Responses(st[s])) :
                      LET line == lines[Nth(at, k)]
                          code == Responses(st[s])[k].status_code
                      IN /\ line.args = <<code>>
                         /\ line.ch = IF code = 200 THEN "stdout" ELSE "stderr"

\* a run returned SUCCESS for a final 201 whose Status line went to stderr
C4_Witness ==
    \E s \in Steps :
        /\ Returned(st[s]) /\ GotResponse(st[s])
        /\ st[s].result = SUCCESS
        /\ st[s].outcome[1].r.status_code = 201
        /\ \E k \in DOMAIN PrimaryLines(st[s]) :
               /\ PrimaryLines(st[s])[k].fmt = FmtStatus
               /\ PrimaryLines(st[s])[k].args = <<201>>
               /\ PrimaryLines(st[s])[k].ch = "stderr"

\* C5: when run has returned after a response with N redirect hops, the primary
\* log holds N+1 per-response sections, those of the hops oldest first and that
\* of the final response last; for N >= 1 one "Redirected N times:" line, before
\* the first section, and N rules of 60 '=', one between each two consecutive
\* sections; for N = 0 no "Redirected" line and no rule.
C5_Sections ==
    \A s \in Steps :
        (Returned(st[s]) /\ GotResponse(st[s])) =>
            LET lines == PrimaryLines(st[s])
                N == Len(st[s].outcome[1].r.history)
                starts == Positions(lines, FmtRequestHeader)
                urls == Positions(lines, FmtURL)
                contents == Positions(lines, FmtContent)
                redirected == Positions(lines, FmtRedirected)
                rules == {k \in DOMAIN lines : IsRule(lines[k])}
            IN /\ Cardinality(starts) = N + 1
               /\ Cardinality(urls) = N + 1
               /\ Cardinality(contents) = N + 1
               /\ \A k \in 1..(N + 1) :
                      /\ Nth(starts, k) < Nth(urls, k)
                      /\ Nth(urls, k) < Nth(contents, k)
                      /\ k <= N => Nth(contents, k) < Nth(starts, k + 1)
                      /\ lines[Nth(urls, k)].args = <<Responses(st[s])[k].url>>
               /\ Cardinality(redirected) = IF N >= 1 THEN 1 ELSE 0
               /\ \A k \in redirected : lines[k].args = <<N>> /\ k < Nth(starts, 1)
               /\ Cardinality(rules) = N
               /\ \A k \in 1..N :
                      /\ Nth(contents, k) < Nth(rules, k)
                      /\ Nth(rules, k) < Nth(starts, k + 1)

\* a run returned after a response that followed two redirect hops
C5_Witness ==
    \E s \in Steps :
        /\ Returned(st[s]) /\ GotResponse(st[s])
        /\ Len(st[s].outcome[1].r.history) = 2
        /\ Cardinality({k \in DOMAIN PrimaryLines(st[s]) : IsRule(PrimaryLines(st[s])[k])}) = 2

\* the formats of the lines log_response writes for a response
ResponseFormats == {FmtRequestHeader, FmtURL, FmtStatus, FmtResponseHeader, FmtContent}

StderrLines(lines) == {k \in DOMAIN lines : lines[k].ch = "stderr"}

\* C6: when the request raised a ConnectionError and run has returned, the primary
\* log holds no "Status:" line and no line of a per-response section, no content
\* log was opened, exactly one line is on the stderr channel and it carries the
\* exception detail, and run returned FAILURE; from the exception on, run only
\* writes that line and returns.
C6_ConnectionError ==
    \A s \in Steps :
        GotConnectionError(st[s]) =>
            /\ st[s].pc \in {"L128", "L130", "returned"}
            /\ \A k \in DOMAIN PrimaryLines(st[s]) :
                   PrimaryLines(st[s])[k].fmt \notin ResponseFormats
            /\ \A k \in DOMAIN st[s].logs : st[s].logs[k].name # "content"
            /\ Returned(st[s]) =>
                   /\ st[s].result = FAILURE
                   /\ Cardinality(StderrLines(PrimaryLines(st[s]))) = 1
                   /\ \A k \in StderrLines(PrimaryLines(st[s])) :
                          /\ PrimaryLines(st[s])[k].fmt = FmtException
                          /\ PrimaryLines(st[s])[k].args = <<st[s].outcome[1].detail>>

\* a run returned after a ConnectionError, its exception line written
C6_Witness ==
    \E s \in Steps :
        /\ Returned(st[s]) /\ GotConnectionError(st[s])
        /\ CountOf(PrimaryLines(st[s]), FmtException) = 1

\* C7: whenever run has returned FAILURE, after a ConnectionError or a final
\* status code of 400 or more, the stderr channel of the primary log holds at
\* least one line.
C7_FailureOnStderr ==
    \A s \in Steps :
        (Returned(st[s]) /\ st[s].result = FAILURE) =>
            StderrLines(PrimaryLines(st[s])) # {}

\* a run returned FAILURE for a final 404 that followed a redirect
C7_Witness ==
    \E s \in Steps :
        /\ Returned(st[s]) /\ GotResponse(st[s])
        /\ st[s].result = FAILURE
        /\ st[s].outcome[1].r.status_code = 404
        /\ Len(st[s].outcome[1].r.history) = 1

\* the number of lines of the request summary of a configuration
SummaryLength(r) ==
    1 + (IF Truthy(r.attrs["params"]) THEN 1 + Len(r.attrs["params"].v) ELSE 0)
      + (IF ~Truthy(r.attrs["data"]) THEN 0
         ELSE IF r.attrs["data"].t = "dict" THEN 1 + Len(r.attrs["data"].v)
         ELSE 2)

\* the lines written to the primary log or handed to it
LinesIssued(r) ==
    Len(PrimaryLines(r))
    + (IF Len(r.inflight) = 1 /\ r.inflight[1].op = "write" /\ r.inflight[1].log = r.log
       THEN 1 ELSE 0)

\* C8: a run calls session.request at most once at any time and exactly once by
\* the time it returns, whatever the outcome; until the request is issued only
\* lines of the request summary are written or handed to the log, and when it
\* is issued every line of the summary is in the log and no other line is.
C8_OneRequest ==
    \A s \in Steps :
        /\ Len(st[s].requests) <= 1
        /\ Returned(st[s]) => Len(st[s].requests) = 1
        /\ Len(st[s].requests) = 0 =>
               /\ LinesIssued(st[s]) <= SummaryLength(st[s])
               /\ \A k \in DOMAIN PrimaryLines(st[s]) :
                      /\ PrimaryLines(st[s])[k].ch = "header"
                      /\ PrimaryLines(st[s])[k].fmt \notin ResponseFormats
        /\ Len(st[s].requests) = 1 =>
               /\ Len(PrimaryLines(st[s])) >= SummaryLength(st[s])
               /\ \A k \in 1..SummaryLength(st[s]) :
                      /\ PrimaryLines(st[s])[k].ch = "header"
                      /\ PrimaryLines(st[s])[k].fmt \notin ResponseFormats
               /\ \A k \in (SummaryLength(st[s]) + 1)..Len(PrimaryLines(st[s])) :
                      PrimaryLines(st[s])[k].fmt
                          \in ResponseFormats \cup {FmtKeyValue, FmtRedirected, FmtException, "{}\n"}
               /\ (Len(st[s].inflight) = 1 /\ st[s].inflight[1].op = "request")
                      => Len(PrimaryLines(st[s])) = SummaryLength(st[s])

\* a run with params and data returned after a ConnectionError, one request issued
C8_Witness ==
    \E s \in Steps :
        /\ Returned(st[s]) /\ GotConnectionError(st[s])
        /\ Len(st[s].requests) = 1
        /\ Truthy(st[s].attrs["params"]) /\ Truthy(st[s].attrs["data"])

LogsNamed(r, name) == {k \in DOMAIN r.logs : r.logs[k].name = name}

\* C9 as stated: a run that has returned has opened exactly two logs, one named
\* "log" and one named "content".
C9_TwoLogs ==
    \A s \in Steps :
        Returned(st[s]) =>
            /\ Len(st[s].logs) = 2
            /\ Cardinality(LogsNamed(st[s], "log")) = 1
            /\ Cardinality(LogsNamed(st[s], "content")) = 1

\* C9, amended: a run opens exactly one log named "log"; by its return it has
\* opened one log named "content" per response logged, N+1 after a response
\* with N redirect hops, and none after a ConnectionError; it opens no other log.
C9_LogsOpened ==
    \A s \in Steps :
        /\ Cardinality(LogsNamed(st[s], "log")) = IF st[s].pc \in {"new", "ConfigError", "constructed"}
                                                   \/ (st[s].pc = "L105" /\ Len(st[s].inflight) = 1)
                                                   THEN 0 ELSE 1
        /\ \A k \in DOMAIN st[s].logs : st[s].logs[k].name \in {"log", "content"}
        /\ Returned(st[s]) =>
               Cardinality(LogsNamed(st[s], "content")) =
                   IF GotConnectionError(st[s]) THEN 0 ELSE Len(st[s].outcome[1].r.history) + 1

\* a run returned after two redirect hops with three content logs opened
C9_Witness ==
    \E s \in Steps :
        /\ Returned(st[s]) /\ GotResponse(st[s])
        /\ Len(st[s].outcome[1].r.history) = 2
        /\ Cardinality(LogsNamed(st[s], "content")) = 3

\* the steps that have called getSession
Started(s) == st[s].pc \notin {"new", "ConfigError", "constructed"}

\* C10: with concurrent invocations and no setSession or closeSession call, at
\* most one session is ever constructed; once an invocation has called
\* getSession there is exactly one, constructed by the first call of getSession,
\* it is the global session and it is not closed; every invocation holds it and
\* issues its request on it.
C10_OneSession ==
    /\ Len(sessions) <= 1
    /\ (\E s \in Steps : Started(s)) =>
           /\ Len(sessions) = 1
           /\ _session = 1
           /\ sessions[1].nth = 1
           /\ sessions[1].closes = 0
           /\ Started(sessions[1].by)
    /\ \A s \in Steps :
           /\ Started(s) => st[s].session = 1
           /\ \A k \in DOMAIN st[s].requests : st[s].requests[k].session = 1

\* every invocation has issued its request, while another was still running
C10_Witness ==
    /\ \A s \in Steps : Len(st[s].requests) = 1
    /\ \E s \in Steps : ~Returned(st[s])
    /\ \E s \in Steps : sessions[1].by # s

\* C11: over any sequence of getSession, setSession and closeSession calls, the
\* "before shutdown" trigger that calls closeSession is registered with the
\* reactor at most once.
C11_TriggerOnce == triggers <= 1

\* the reactor shuts down in this step, with session x the global session
ShutdownOf(x) == reactor = "running" /\ reactor' = "stopped" /\ _session = x

C13_Description ==
    \A s \in Steps :
        Returned(st[s]) =>
            /\ GotResponse(st[s]) =>
                   /\ st[s].descriptionDone =
                          List(<<Text("Status code: %d", <<st[s].outcome[1].r.status_code>>)>>)
                   /\ st[s].result \in {SUCCESS, FAILURE}
            /\ GotConnectionError(st[s]) =>
                   st[s].descriptionDone = Text("Requested", <<>>)

\* a run that returned FAILURE after a redirect hop of another status code
C13_Witness ==
    \E s \in Steps :
        /\ Returned(st[s]) /\ GotResponse(st[s])
        /\ st[s].result = FAILURE
        /\ st[s].outcome[1].r.status_code = 404
        /\ Len(st[s].outcome[1].r.history) = 1
        /\ st[s].outcome[1].r.history[1].status_code = 302
        /\ st[s].descriptionDone = List(<<Text("Status code: %d", <<404>>)>>)

\* the key/value lines of a sequence of items
KeyValueLines(items) == [k \in DOMAIN items |-> Line("header", FmtKeyValue, items[k])]

\* the request summary of the configuration of step record r
ExpectedSummary(r) ==
    <<Line("header", FmtPerforming, <<r.method, r.url>>)>>
    \o (IF Truthy(r.attrs["params"])
        THEN <<Line("header", FmtParameters, <<>>)>>
             \o KeyValueLines(SortByKey(r.attrs["params"].v))
        ELSE <<>>)
    \o (IF ~Truthy(r.attrs["data"]) THEN <<>>
        ELSE IF r.attrs["data"].t = "dict"
        THEN <<Line("header", FmtData, <<>>)>> \o KeyValueLines(r.attrs["data"].v)
        ELSE <<Line("header", FmtData, <<>>), Line("header", "\t{}\n", <<r.attrs["data"]>>)>>)

\* the section of one response
ExpectedSection(resp) ==
    <<Line("header", FmtRequestHeader, <<>>)>>
    \o KeyValueLines(resp.request.headers)
    \o <<Line("stdout", FmtURL, <<resp.url>>),
         Line(IF resp.status_code = 200 THEN "stdout" ELSE "stderr",
              FmtStatus, <<resp.status_code>>),
         Line("header", FmtResponseHeader, <<>>)>>
    \o KeyValueLines(resp.headers)
    \o <<Line("stdout", FmtContent, <<resp.text>>)>>

\* the sections of the redirect hops, each followed by its rule
RECURSIVE ExpectedHops(_)
ExpectedHops(history) ==
    IF Len(history) = 0 THEN <<>>
    ELSE ExpectedSection(Head(history))
         \o <<Line("stdout", "{}\n", <<[k \in 1..60 |-> "="]>>)>>
         \o ExpectedHops(Tail(history))

\* the lines that follow the request, once its outcome is known
ExpectedReport(o) ==
    IF o.exc = "ConnectionError"
    THEN <<Line("stderr", FmtException, <<o.detail>>)>>
    ELSE (IF Len(o.r.history) > 0
          THEN <<Line("stdout", FmtRedirected, <<Len(o.r.history)>>)>>
               \o ExpectedHops(o.r.history)
          ELSE <<>>)
         \o ExpectedSection(o.r)

ExpectedLines(r) ==
    ExpectedSummary(r) \o (IF Len(r.outcome) = 1 THEN ExpectedReport(r.outcome[1]) ELSE <<>>)

\* the lines of the primary log are the first lines of the expected sequence
InOrder(r) ==
    /\ Len(PrimaryLines(r)) <= Len(ExpectedLines(r))
    /\ PrimaryLines(r) = SubSeq(ExpectedLines(r), 1, Len(PrimaryLines(r)))

\* C14: in every interleaving of concurrent invocations and of the completions
\* of their log operations, the lines reaching the primary log of each
\* invocation are, in this order, the "Performing" line, the Parameters and
\* Data sections when present, then for each response, hops first, "Request
\* Header:" with the request headers, "URL:", "Status:", "Response Header:"
\* with the response headers in the response's order and the content line
\* (with the "Redirected" line, the rules and the exception line at their
\* places); the log of a run that has returned holds the whole sequence; and an
\* invocation hands over an operation only when its previous one has completed.
C14_WritesInOrder ==
    /\ [](\A s \in Steps :
              /\ InOrder(st[s])
              /\ Returned(st[s]) => PrimaryLines(st[s]) = ExpectedLines(st[s]))
    /\ [][\A s \in Steps :
              (st'[s] # st[s] /\ Len(st'[s].inflight) = 1) => Len(st[s].inflight) = 0]_vars

\* two invocations are running at once, each with lines in its primary log, the
\* first of them into the section of the final response after a redirect hop
C14_Witness ==
    /\ \A s \in Steps : ~Returned(st[s]) /\ Len(PrimaryLines(st[s])) >= 1
    /\ GotResponse(st[FirstStep])
    /\ Len(st[FirstStep].outcome[1].r.history) = 1
    /\ st[FirstStep].caller = "L139"
    /\ Truthy(st[FirstStep].attrs["params"])
    /\ CountOf(PrimaryLines(st[FirstStep]), FmtContent) = 2

\* the keyword arguments of the request the run of step record r has issued
SentKwargs(r) == r.requests[1].kwargs

\* C15: the keyword arguments of the request a run has issued are method, url
\* and the options of the whitelist whose value is not None, and no other;
\* method and url are the step's, and every forwarded option other than a
\* non-empty params has the value the step was constructed with; from its
\* construction on, a step's method, url and options are never changed.
C15_ForwardedOptions ==
    /\ [](\A s \in Steps :
              Len(st[s].requests) >= 1 =>
                  /\ DOMAIN SentKwargs(st[s]) =
                         {"method", "url"} \cup {p \in ParamNames : st[s].attrs[p] # None}
                  /\ SentKwargs(st[s])["method"] = Name(st[s].method)
                  /\ SentKwargs(st[s])["url"] = Name(st[s].url)
                  /\ \A p \in ParamNames :
                         (st[s].attrs[p] # None /\ ~(p = "params" /\ Truthy(st[s].attrs[p])))
                             => SentKwargs(st[s])[p] = st[s].attrs[p])
    /\ [][\A s \in Steps :
              st[s].pc \notin {"new", "ConfigError"} =>
                  /\ st'[s].attrs = st[s].attrs
                  /\ st'[s].method = st[s].method
                  /\ st'[s].url = st[s].url]_vars

\* a request issued for a step constructed with timeout, verify and data, and
\* with json None: json is not among the keyword arguments
C15_Witness ==
    \E s \in Steps :
        /\ Len(st[s].requests) = 1
        /\ st[s].attrs["json"] = None
        /\ DOMAIN SentKwargs(st[s]) = {"method", "url", "timeout", "verify", "data"}
        /\ SentKwargs(st[s])["timeout"] = Opaque(5)
        /\ SentKwargs(st[s])["data"] = Str(<<1>>)

\* the lines of the primary log of r written before the request
SummaryLines(r) == SubSeq(PrimaryLines(r), 1, SummaryLength(r))

\* the lines of the summary that follow its "Data:" line
DataLines(r) ==
    LET at == CHOOSE k \in DOMAIN SummaryLines(r) : SummaryLines(r)[k].fmt = FmtData IN
    SubSeq(SummaryLines(r), at + 1, Len(SummaryLines(r)))

\* C16: when the request is issued, the primary log holds the request summary:
\* the "Performing <METHOD> request to <URL>" line first, a "Parameters:" line
\* exactly when params is non-empty, a "Data:" line exactly when data is
\* non-empty, after the Parameters section; the Data section ends the summary
\* and holds one line per entry of a mapping, in the mapping's own order, or
\* the one line of the raw value; the data sent with the request is the
\* configured value.
C16_RequestSummary ==
    \A s \in Steps :
        Len(st[s].requests) >= 1 =>
            LET r == st[s]
                lines == SummaryLines(r)
                params == r.attrs["params"]
                data == r.attrs["data"] IN
            /\ Len(PrimaryLines(r)) >= SummaryLength(r)
            /\ lines[1] = Line("header", FmtPerforming, <<r.method, r.url>>)
            /\ CountOf(lines, FmtPerforming) = 1
            /\ CountOf(lines, FmtParameters) = (IF Truthy(params) THEN 1 ELSE 0)
            /\ CountOf(lines, FmtData) = (IF Truthy(data) THEN 1 ELSE 0)
            /\ Truthy(params) =>
                   /\ lines[2] = Line("header", FmtParameters, <<>>)
                   /\ \A k \in 3..(2 + Len(params.v)) : lines[k].fmt = FmtKeyValue
            /\ Truthy(data) =>
                   /\ lines[Len(lines) - Len(DataLines(r))] = Line("header", FmtData, <<>>)
                   /\ Len(lines) - Len(DataLines(r)) =
                          (IF Truthy(params) THEN 3 + Len(params.v) ELSE 2)
                   /\ IF data.t = "dict"
                      THEN DataLines(r) =
                               [k \in DOMAIN data.v |-> Line("header", FmtKeyValue, data.v[k])]
                      ELSE DataLines(r) = <<Line("header", "\t{}\n", <<data>>)>>
            /\ ~Truthy(data) => Len(lines) = (IF Truthy(params) THEN 2 + Len(params.v) ELSE 1)
            /\ data # None => SentKwargs(r)["data"] = data
            /\ data = None => "data" \notin DOMAIN SentKwargs(r)

\* a request issued with params and with a mapping as data whose entries are
\* not in key order: the Data section lists them in the mapping's order
C16_Witness ==
    \E s \in Steps :
        /\ Len(st[s].requests) = 1
        /\ Truthy(st[s].attrs["params"])
        /\ st[s].attrs["data"] = Dict(<< <<<<2>>, <<7>>>>, <<<<1>>, <<8>>>> >>)
        /\ DataLines(st[s]) = << Line("header", FmtKeyValue, <<<<2>>, <<7>>>>),
                                 Line("header", FmtKeyValue, <<<<1>>, <<8>>>>) >>

\* how many times the primary log of step record r has been finished
PrimaryFinished(r) == IF r.log = 0 THEN 0 ELSE r.logs[r.log].finished

\* the run of r has handed the finish of its primary log to the sink
FinishIssued(r) ==
    Len(r.inflight) = 1 /\ r.inflight[1].op = "finish" /\ r.inflight[1].log = r.log

\* C17: the primary log is finished at most once; a run that has returned after
\* a response has finished it exactly once; the finish is issued only after a
\* response was received and every line of the log has been written, and no
\* line is added to the log from then on; a run that got a ConnectionError
\* never finishes the primary log, returned or not; no log named "content" is
\* ever finished and no finish of one is ever issued.
C17_Finish ==
    /\ [](\A s \in Steps :
              LET r == st[s] IN
              /\ PrimaryFinished(r) <= 1
              /\ (Returned(r) /\ GotResponse(r)) => PrimaryFinished(r) = 1
              /\ (FinishIssued(r) \/ PrimaryFinished(r) >= 1) =>
                     /\ GotResponse(r)
                     /\ PrimaryLines(r) = ExpectedLines(r)
              /\ FinishIssued(r) => ~Returned(r) /\ PrimaryFinished(r) = 0
              /\ GotConnectionError(r) => PrimaryFinished(r) = 0 /\ ~FinishIssued(r)
              /\ \A k \in LogsNamed(r, "content") : r.logs[k].finished = 0
              /\ \A k \in 1..Len(r.inflight) :
                     r.inflight[k].op = "finish" => r.inflight[k].log = r.log)
    /\ [][\A s \in Steps :
              (FinishIssued(st[s]) \/ PrimaryFinished(st[s]) >= 1)
                  => PrimaryLines(st'[s]) = PrimaryLines(st[s])]_vars

\* a run that returned after a redirect hop: the primary log finished once, its
\* two content logs not finished
C17_Witness ==
    \E s \in Steps :
        /\ Returned(st[s]) /\ GotResponse(st[s])
        /\ PrimaryFinished(st[s]) = 1
        /\ Cardinality(LogsNamed(st[s], "content")) = 2
        /\ \A k \in LogsNamed(st[s], "content") :
               st[s].logs[k].finished = 0 /\ Len(st[s].logs[k].lines) = 1

\* the run of step s is suspended on a log operation, its request not yet issued
BeforeRequest(s) == Started(s) /\ Len(st[s].requests) = 0

C19_NeverClosedSession ==
    /\ [](setCalls = 0 =>
              /\ \A k \in DOMAIN sessions : sessions[k].closes <= 1
              /\ \A k \in DOMAIN sessions : sessions[k].closes = 0 <=> k = _session
              /\ \A s \in Steps : Started(s) => sessions[st[s].session].closes
                                                   <= (IF st[s].session = _session THEN 0 ELSE 1))
    /\ [][setCalls' = 0 =>
              /\ getCalls' # getCalls =>
                     /\ getCalls' = getCalls + 1
                     /\ \E s \in Steps : ~Started(s) /\ st'[s].pc = "L105"
                                             /\ st'[s].session = _session'
                     /\ _session' # 0
                     /\ sessions'[_session'].closes = 0
                     /\ IF _session # 0
                        THEN _session' = _session /\ sessions' = sessions
                        ELSE /\ _session' \notin DOMAIN sessions
                             /\ SubSeq(sessions', 1, Len(sessions)) = sessions
              /\ closeCalls' # closeCalls =>
                     /\ _session' = 0
                     /\ IF _session # 0
                        THEN sessions' = [sessions EXCEPT ![_session].closes = 1]
                        ELSE sessions' = sessions]_vars

\* without any setSession call: a second getSession, made after a closeSession
\* call had closed the first session, returned a fresh session, not closed
C19_Witness ==
    /\ setCalls = 0
    /\ getCalls = 2
    /\ closeCalls >= 1
    /\ Len(sessions) = 2
    /\ sessions[1].closes = 1
    /\ _session = 2
    /\ sessions[2].closes = 0
    /\ st[sessions[2].by].session = 2
    /\ st[sessions[1].by].session = 1

====
